---- MODULE Spec2Model ----
(***************************************************************************)
(* Promo/discount, cart, payment-status and shipping-address logic of the   *)
(* storefront (src/cart, src/payments, src/promotions, src/orders,          *)
(* src/shipping).                                                           *)
(*                                                                          *)
(* The specifications of the module:                                        *)
(*   SpecDiscount   PromoCode.calculate_discount as a pure function         *)
(*   SpecPay        orders, payments and the provider callbacks             *)
(*   SpecCart       carts, cart items and promo codes                       *)
(*   SpecSignature  verify_payment_signature and the Pi callback            *)
(*   SpecFlashRace  two overlapping add_flash_sale_to_cart requests         *)
(*   SpecPromoRace  two overlapping apply_promo_code requests               *)
(*   SpecItems      the cart-item, saved-for-later and recovery requests    *)
(*   SpecShipping   the shipping addresses of the users                     *)
(* In the two Race specifications a handler is a sequence of steps that     *)
(* interleave with the other worker's; in the others every handler is one   *)
(* atomic action (one request at a time).                                   *)
(*                                                                          *)
(* Money is a Decimal in the source.  It is an integer number of            *)
(* millionths of the currency unit here, which is exact for every product   *)
(* the code forms of two 2-decimal values (a 2-decimal total times a        *)
(* 2-decimal percentage over 100 has 6 decimals).                           *)
(***************************************************************************)
EXTENDS Integers, Sequences, FiniteSets, TLC

VARIABLES
    \* SpecDiscount: the inputs and the result of calculate_discount
    dPromo, dTotal, dNow, dResult, dPc,
    \* the clock (timezone.now()) and the last request served
    now, last,
    \* SpecPay: the Order, Payment, PiPaymentTransaction and
    \* MpesaB2CTransaction/PhonePayment tables, and the number of payment
    \* requests the providers have accepted (they number their identifiers)
    orders, payments, pi_transactions, b2c_transactions, issued,
    \* SpecCart: the Cart, CartItem and CartPromoCode tables, the used_count
    \* of every PromoCode, the browsers that have a session, and the
    \* FlashSaleProduct's sold_count with the FlashSalePurchase rows
    carts, items, applied, used_count, sessions, sold_count, purchases,
    \* SpecSignature: the callback body and the secret key handed to
    \* verify_payment_signature, and what it returned
    sig_data, sig_key, sig_result,
    \* SpecRace: the requests in flight, by worker: where each one is in its
    \* handler and the local values it holds
    rq,
    \* SpecItems: the SavedForLater rows and the AbandonedCart rows
    saved, abandoned,
    \* SpecShipping: the ShippingAddress rows
    addresses

dvars == <<dPromo, dTotal, dNow, dResult, dPc>>

evars == <<now, last>>

pvars == <<orders, payments, pi_transactions, b2c_transactions, issued>>

cvars == <<carts, items, applied, used_count, sessions, sold_count, purchases>>

svars == <<sig_data, sig_key, sig_result>>

rvars == <<rq>>

ivars == <<saved, abandoned>>

avars == <<addresses>>

vars == <<dvars, evars, pvars, cvars, svars, rvars, ivars, avars>>

(***************************************************************************)
(* Python's None: for an optional number (a nullable DecimalField or       *)
(* PositiveIntegerField, whose values are >= 0) and for an optional string  *)
(* or row.                                                                  *)
(***************************************************************************)
None == 0 - 1

Null == "None"

Cent == 100 * 100

Dollar == 100 * Cent

Min(a, b) == IF a <= b THEN a ELSE b

Max(a, b) == IF a >= b THEN a ELSE b

(***************************************************************************)
(* Bounds of the model.                                                     *)
(***************************************************************************)
MaxTime == 1

MaxOrders == 2

MaxIssued == 2

MaxB2C == 1

(***************************************************************************)
(* Python truthiness of an optional Decimal: None and Decimal('0') are      *)
(* both false.                                                              *)
(***************************************************************************)
Truthy(x) == x # None /\ x # 0

(***************************************************************************)
(* PromoCode.is_valid                                                       *)
(***************************************************************************)
is_valid_NoUsageLimit(promo, used, at) ==
    /\ promo.is_active
    /\ promo.valid_from <= at
    /\ at <= promo.valid_until

is_valid_LimitInclusive(promo, used, at) ==
    /\ promo.is_active
    /\ promo.valid_from <= at
    /\ at <= promo.valid_until
    /\ (promo.usage_limit = None \/ used <= promo.usage_limit)

is_valid(promo, used, at) ==
    /\ promo.is_active
    /\ promo.valid_from <= at
    /\ at <= promo.valid_until
    /\ (promo.usage_limit = None \/ used < promo.usage_limit)

(***************************************************************************)
(* cart_total * (discount_value / 100), both 2-decimal values.              *)
(***************************************************************************)
PercentOf(cart_total, discount_value) ==
    (cart_total \div Cent) * (discount_value \div Cent)

SHIPPING_FEE == 5 * Dollar

(***************************************************************************)
(* PromoCode.calculate_discount                                             *)
(***************************************************************************)
calculate_discount_CapIfNotNone(promo, used, at, cart_total) ==
    IF ~is_valid(promo, used, at) \/ cart_total < promo.minimum_order
    THEN 0
    ELSE CASE promo.discount_type = "PERCENTAGE" ->
                  IF promo.maximum_discount # None
                  THEN Min(PercentOf(cart_total, promo.discount_value),
                           promo.maximum_discount)
                  ELSE PercentOf(cart_total, promo.discount_value)
           [] promo.discount_type = "FIXED" ->
                  Min(promo.discount_value, cart_total)
           [] promo.discount_type = "FREE_SHIPPING" -> SHIPPING_FEE
           [] OTHER -> 0

calculate_discount_FixedUnclamped(promo, used, at, cart_total) ==
    IF ~is_valid(promo, used, at) \/ cart_total < promo.minimum_order
    THEN 0
    ELSE CASE promo.discount_type = "PERCENTAGE" ->
                  IF Truthy(promo.maximum_discount)
                  THEN Min(PercentOf(cart_total, promo.discount_value),
                           promo.maximum_discount)
                  ELSE PercentOf(cart_total, promo.discount_value)
           [] promo.discount_type = "FIXED" -> promo.discount_value
           [] promo.discount_type = "FREE_SHIPPING" -> SHIPPING_FEE
           [] OTHER -> 0

calculate_discount(promo, used, at, cart_total) ==
    IF ~is_valid(promo, used, at) \/ cart_total < promo.minimum_order
    THEN 0
    ELSE CASE promo.discount_type = "PERCENTAGE" ->
                  IF Truthy(promo.maximum_discount)
                  THEN Min(PercentOf(cart_total, promo.discount_value),
                           promo.maximum_discount)
                  ELSE PercentOf(cart_total, promo.discount_value)
           [] promo.discount_type = "FIXED" ->
                  Min(promo.discount_value, cart_total)
           [] promo.discount_type = "FREE_SHIPPING" -> SHIPPING_FEE
           [] OTHER -> 0


(***************************************************************************)
(* SpecDiscount: the inputs of calculate_discount are drawn from bounded    *)
(* sets, then the function is applied once.                                 *)
(***************************************************************************)
DiscountTypes == {"PERCENTAGE", "FIXED", "FREE_SHIPPING", "BOGO"}

DiscountValues == {0, 20 * Dollar, 50 * Dollar, 150 * Dollar}

MaximumDiscounts == {None, 0, 15 * Dollar}

MinimumOrders == {0, 50 * Dollar}

CartTotals == {0, 2 * Dollar, 40 * Dollar, 100 * Dollar}

UsageLimits == {None, 1}

PromoInputs ==
    [discount_type : DiscountTypes,
     discount_value : DiscountValues,
     minimum_order : MinimumOrders,
     maximum_discount : MaximumDiscounts,
     is_active : BOOLEAN,
     valid_from : 0..1,
     valid_until : 0..1,
     usage_limit : UsageLimits,
     used_count : 0..1]

DiscountIdle ==
    /\ dPromo = CHOOSE x \in PromoInputs : TRUE
    /\ dTotal = 0
    /\ dNow = 0
    /\ dResult = None
    /\ dPc = "idle"

(***************************************************************************)
(* The request environment shared by SpecPay and SpecCart.                  *)
(***************************************************************************)
Users == {"u1", "u2"}

\* the users who place orders
Buyers == {"u1"}

\* last: the handler that served the last request; the promo code the
\* request named, or the message of a refusal that has one (arg; Null for
\* a request that names no code and answers no message); the status of
\* the Payment it looked up as the handler found it (was; Null when it
\* looked up none or found none); and whether it succeeded (ok: it ran to
\* its end without an exception, or answered success=true)
NoRequest == [op |-> "none", arg |-> Null, was |-> Null, ok |-> FALSE]

EnvInit ==
    /\ now = 0
    /\ last = NoRequest

Served(op, was, ok) ==
    last' = [op |-> op, arg |-> Null, was |-> was, ok |-> ok]

Answered(op, arg, ok) ==
    last' = [op |-> op, arg |-> arg, was |-> Null, ok |-> ok]

\* a refusal, answered with a message
Refused(op, message) ==
    last' = [op |-> op, arg |-> message, was |-> Null, ok |-> FALSE]

(***************************************************************************)
(* Payments (src/payments/views.py, src/payments/models.py).                *)
(*                                                                          *)
(* orders[o]            [user, is_paid]                                     *)
(* payments[i]          [order, payment_method, payment_id, pi_payment_id,  *)
(*                       status]                                            *)
(* pi_transactions[t]   [payment, status, completed_at]                     *)
(* b2c_transactions[t]  [conversation_id, status, phone_status]: the        *)
(*                      MpesaB2CTransaction and its PhonePayment            *)
(***************************************************************************)
PayInit ==
    /\ orders = <<>>
    /\ payments = <<>>
    /\ pi_transactions = <<>>
    /\ b2c_transactions = <<>>
    /\ issued = 0

\* The identifiers the providers hand out: CheckoutRequestID of an STK push,
\* identifier of a Pi payment, ConversationID of a B2C payout.
ProviderId(n) == "id" \o ToString(n)

IssuedIds == {ProviderId(n) : n \in 1..issued}

\* What an inbound callback may name: an identifier a provider issued, one
\* nobody issued, the empty string, or nothing (the key is missing).
CallbackIds == IssuedIds \cup {"unknown", "", Null}

\* Payment.order is a OneToOneField: a second Payment for the same order
\* raises IntegrityError.
PaymentOrderUnique_Dropped(o) == TRUE

PaymentOrderUnique(o) == \A i \in DOMAIN payments : payments[i].order # o

\* get_object_or_404(Order, pk=order_id, user=request.user, is_paid=False)
UnpaidOrderOf(u, o) ==
    /\ o \in DOMAIN orders
    /\ orders[o].user = u
    /\ ~orders[o].is_paid

NewPayment(o, method, payment_id, pi_payment_id, status) ==
    [order |-> o, payment_method |-> method, payment_id |-> payment_id,
     pi_payment_id |-> pi_payment_id, status |-> status]

\* orders/views.py buy_now (cart_checkout creates the same Order row)
buy_now(u) ==
    /\ Len(orders) < MaxOrders
    /\ orders' = Append(orders, [user |-> u, is_paid |-> FALSE])
    /\ Served("buy_now", Null, TRUE)
    /\ UNCHANGED <<now, payments, pi_transactions, b2c_transactions, issued,
                   dvars, svars, ivars, avars, rvars, cvars>>

\* pay_order: the STK push is sent first; the Payment row is created from its
\* response.  stk is what stk_push does: "raise", "id" (a response with a
\* CheckoutRequestID) or "noid" (a response without one).
pay_order(u, o, stk) ==
    /\ UnpaidOrderOf(u, o)
    /\ IF stk = "raise"
       THEN /\ Served("pay_order", Null, FALSE)
            /\ UNCHANGED <<payments, issued>>
       ELSE /\ issued < MaxIssued
            /\ issued' = issued + 1
            /\ LET cid == IF stk = "id" THEN ProviderId(issued + 1) ELSE ""
               IN  IF PaymentOrderUnique(o)
                   THEN /\ payments' = Append(payments,
                               NewPayment(o, "mpesa", cid, Null, "pending"))
                        /\ Served("pay_order", Null, TRUE)
                   ELSE /\ UNCHANGED payments
                        /\ Served("pay_order", Null, FALSE)
    /\ UNCHANGED <<now, orders, pi_transactions, b2c_transactions,
                   dvars, svars, ivars, avars, rvars, cvars>>

\* pay_order_pi, payment_type == 'api'.  api is what initiate_payment does:
\* "raise" (PiNetworkError) or "id" (a response with an identifier).
pay_order_pi_api(u, o, api) ==
    /\ UnpaidOrderOf(u, o)
    /\ IF api = "raise"
       THEN /\ Served("pay_order_pi", Null, FALSE)
            /\ UNCHANGED <<payments, pi_transactions, issued>>
       ELSE /\ issued < MaxIssued
            /\ issued' = issued + 1
            /\ LET pid == ProviderId(issued + 1)
               IN  IF PaymentOrderUnique(o)
                   THEN /\ payments' = Append(payments,
                               NewPayment(o, "pi_coin", "", pid,
                                          "processing"))
                        /\ pi_transactions' = Append(pi_transactions,
                               [payment |-> Len(payments) + 1,
                                status |-> "pending", completed_at |-> None])
                        /\ Served("pay_order_pi", Null, TRUE)
                   ELSE /\ UNCHANGED <<payments, pi_transactions>>
                        /\ Served("pay_order_pi", Null, FALSE)
    /\ UNCHANGED <<now, orders, b2c_transactions,
                   dvars, svars, ivars, avars, rvars, cvars>>

\* pay_order_pi, manual payment with a wallet address given
pay_order_pi_manual(u, o) ==
    /\ UnpaidOrderOf(u, o)
    /\ IF PaymentOrderUnique(o)
       THEN /\ payments' = Append(payments,
                   NewPayment(o, "pi_coin", "", Null, "pending"))
            /\ Served("pay_order_pi", Null, TRUE)
       ELSE /\ UNCHANGED payments
            /\ Served("pay_order_pi", Null, FALSE)
    /\ UNCHANGED <<now, orders, pi_transactions, b2c_transactions, issued,
                   dvars, svars, ivars, avars, rvars, cvars>>

\* Payment.objects.get(payment_id=checkout_id): the rows that match.  A
\* lookup by None is an IS NULL test, which no row of the non-null column
\* passes.
mpesa_lookup_OrLatest(checkout_id) ==
    LET S == {i \in DOMAIN payments : payments[i].payment_id = checkout_id}
    IN  IF S = {} /\ payments # <<>> THEN {Len(payments)} ELSE S

mpesa_lookup(checkout_id) ==
    IF checkout_id = Null THEN {}
    ELSE {i \in DOMAIN payments : payments[i].payment_id = checkout_id}

\* mpesa_callback: DoesNotExist is swallowed, MultipleObjectsReturned is not
mpesa_callback(checkout_id, result_code) ==
    LET S == mpesa_lookup(checkout_id)
    IN  /\ IF Cardinality(S) = 1
           THEN LET i == CHOOSE i \in S : TRUE
                IN  IF result_code = 0
                    THEN /\ payments' =
                                [payments EXCEPT ![i].status = "completed"]
                         /\ orders' = [orders EXCEPT
                                ![payments[i].order].is_paid = TRUE]
                         /\ Served("mpesa_callback", payments[i].status, TRUE)
                    ELSE /\ payments' =
                                [payments EXCEPT ![i].status = "failed"]
                         /\ UNCHANGED orders
                         /\ Served("mpesa_callback", payments[i].status, TRUE)
           ELSE /\ UNCHANGED <<payments, orders>>
                /\ Served("mpesa_callback", Null, S = {})
        /\ UNCHANGED <<now, pi_transactions, b2c_transactions, issued,
                       dvars, svars, ivars, avars, rvars, cvars>>

\* PiPaymentProcessor.process_payment_callback: result['success']
process_payment_callback(status) == status = "completed"

\* Payment.objects.get(pi_payment_id=payment_id)
pi_lookup_SkipCompleted(identifier) ==
    {i \in DOMAIN payments : /\ payments[i].pi_payment_id = identifier
                             /\ payments[i].status # "completed"}

pi_lookup(identifier) ==
    {i \in DOMAIN payments : payments[i].pi_payment_id = identifier}

\* payment.pi_transactions.first()
first_pi_transaction(i) ==
    LET T == {t \in DOMAIN pi_transactions : pi_transactions[t].payment = i}
    IN  IF T = {} THEN 0 ELSE CHOOSE t \in T : \A x \in T : t <= x

\* PiPaymentValidator.validate_payment_data: every required field is in
\* the body ('identifier' and 'status' are two of them; Null: the key is
\* missing)
validate_payment_data(identifier, status) ==
    identifier # Null /\ status # Null

\* pi_payment_callback
pi_payment_callback(identifier, status) ==
    LET S == pi_lookup(identifier)
    IN  /\ IF ~validate_payment_data(identifier, status)
           THEN /\ UNCHANGED <<payments, orders, pi_transactions>>
                /\ Served("pi_payment_callback", Null, FALSE)
           ELSE IF identifier \in {Null, ""} \/ S = {}
           THEN /\ UNCHANGED <<payments, orders, pi_transactions>>
                /\ Served("pi_payment_callback", Null, TRUE)
           ELSE IF Cardinality(S) > 1
           THEN /\ UNCHANGED <<payments, orders, pi_transactions>>
                /\ Served("pi_payment_callback", Null, FALSE)
           ELSE LET i == CHOOSE i \in S : TRUE
                    t == first_pi_transaction(i)
                IN  IF process_payment_callback(status)
                    THEN /\ payments' = [payments EXCEPT
                                ![i].status = "completed"]
                         /\ orders' = [orders EXCEPT
                                ![payments[i].order].is_paid = TRUE]
                         /\ pi_transactions' =
                                IF t = 0 THEN pi_transactions
                                ELSE [pi_transactions EXCEPT
                                        ![t].status = "completed",
                                        ![t].completed_at = now]
                         /\ Served("pi_payment_callback", payments[i].status, TRUE)
                    ELSE /\ payments' = [payments EXCEPT
                                ![i].status = "failed"]
                         /\ UNCHANGED <<orders, pi_transactions>>
                         /\ Served("pi_payment_callback", payments[i].status, TRUE)
        /\ UNCHANGED <<now, b2c_transactions, issued,
                       dvars, svars, ivars, avars, rvars, cvars>>

\* Payment.is_pi_payment (the property is read by views.py and admin.py)
is_pi_payment(payment) == payment.payment_method = "pi_coin"

\* confirm_pi_payment (staff): action is 'confirm' or 'reject'
confirm_pi_payment_RejectCancels(i, action) ==
    /\ i \in DOMAIN payments
    /\ payments[i].payment_method = "pi_coin"
    /\ IF action = "confirm"
       THEN /\ payments' = [payments EXCEPT
                                ![i].status = "completed"]
            /\ orders' = [orders EXCEPT ![payments[i].order].is_paid = TRUE]
       ELSE /\ payments' = [payments EXCEPT
                                ![i].status = "cancelled"]
            /\ UNCHANGED orders
    /\ Served("confirm_pi_payment", payments[i].status, TRUE)
    /\ UNCHANGED <<now, pi_transactions, b2c_transactions, issued,
                   dvars, svars, ivars, avars, rvars, cvars>>

confirm_pi_payment(i, action) ==
    /\ i \in DOMAIN payments
    /\ payments[i].payment_method = "pi_coin"
    /\ IF action = "confirm"
       THEN /\ payments' = [payments EXCEPT
                                ![i].status = "completed"]
            /\ orders' = [orders EXCEPT ![payments[i].order].is_paid = TRUE]
       ELSE /\ payments' = [payments EXCEPT
                                ![i].status = "failed"]
            /\ UNCHANGED orders
    /\ Served("confirm_pi_payment", payments[i].status, TRUE)
    /\ UNCHANGED <<now, pi_transactions, b2c_transactions, issued,
                   dvars, svars, ivars, avars, rvars, cvars>>

\* check_pi_payment_status: the outbound status poll.  api is what
\* check_payment_status does: "raise" or the status the provider reports.
check_pi_payment_status(u, i, api) ==
    /\ i \in DOMAIN payments
    /\ orders[payments[i].order].user = u
    /\ IF /\ is_pi_payment(payments[i])
          /\ payments[i].pi_payment_id \notin {Null, ""}
          /\ api = "completed"
       THEN /\ payments' = [payments EXCEPT
                                ![i].status = "completed"]
            /\ orders' = [orders EXCEPT ![payments[i].order].is_paid = TRUE]
       ELSE UNCHANGED <<payments, orders>>
    /\ Served("check_pi_payment_status", payments[i].status, api # "raise")
    /\ UNCHANGED <<now, pi_transactions, b2c_transactions, issued,
                   dvars, svars, ivars, avars, rvars, cvars>>

\* orders/admin.py: the admin actions mark_as_paid and mark_as_unpaid
mark_as_paid(o) ==
    /\ o \in DOMAIN orders
    /\ orders' = [orders EXCEPT ![o].is_paid = TRUE]
    /\ Served("mark_as_paid", Null, TRUE)
    /\ UNCHANGED <<now, payments, pi_transactions, b2c_transactions, issued,
                   dvars, svars, ivars, avars, rvars, cvars>>

mark_as_unpaid_ResetsPayment(o) ==
    /\ o \in DOMAIN orders
    /\ orders' = [orders EXCEPT ![o].is_paid = FALSE]
    /\ payments' = [i \in DOMAIN payments |->
                        IF payments[i].order = o
                        THEN [payments[i] EXCEPT !.status = "pending"]
                        ELSE payments[i]]
    /\ Served("mark_as_unpaid", Null, TRUE)
    /\ UNCHANGED <<now, pi_transactions, b2c_transactions, issued,
                   dvars, svars, ivars, avars, rvars, cvars>>

mark_as_unpaid(o) ==
    /\ o \in DOMAIN orders
    /\ orders' = [orders EXCEPT ![o].is_paid = FALSE]
    /\ Served("mark_as_unpaid", Null, TRUE)
    /\ UNCHANGED <<now, payments, pi_transactions, b2c_transactions, issued,
                   dvars, svars, ivars, avars, rvars, cvars>>

\* send_money_to_phone (staff): the PhonePayment row is created before the
\* B2C request is sent; api is "raise" or "ok".
send_money_to_phone(api) ==
    /\ Len(b2c_transactions) < MaxB2C
    /\ IF api = "raise"
       THEN /\ b2c_transactions' = Append(b2c_transactions,
                   [conversation_id |-> Null, status |-> Null,
                    phone_status |-> "processing"])
            /\ UNCHANGED issued
            /\ Served("send_money_to_phone", Null, FALSE)
       ELSE /\ issued < MaxIssued
            /\ issued' = issued + 1
            /\ b2c_transactions' = Append(b2c_transactions,
                   [conversation_id |-> ProviderId(issued + 1),
                    status |-> "initiated", phone_status |-> "processing"])
            /\ Served("send_money_to_phone", Null, TRUE)
    /\ UNCHANGED <<now, orders, payments, pi_transactions,
                   dvars, svars, ivars, avars, rvars, cvars>>

\* mpesa_b2c_result_callback: it updates the MpesaB2CTransaction and its
\* PhonePayment, never a Payment
mpesa_b2c_result_callback(conversation_id, result_code) ==
    LET S == {t \in DOMAIN b2c_transactions :
                 b2c_transactions[t].conversation_id = conversation_id}
    IN  /\ IF S = {}
           THEN /\ UNCHANGED b2c_transactions
                /\ Served("mpesa_b2c_result_callback", Null, TRUE)
           ELSE LET t == CHOOSE t \in S : TRUE
                    st == IF result_code = "0" THEN "completed" ELSE "failed"
                IN  /\ b2c_transactions' = [b2c_transactions EXCEPT
                           ![t].status = st, ![t].phone_status = st]
                    /\ Served("mpesa_b2c_result_callback", Null, TRUE)
        /\ UNCHANGED <<now, orders, payments, pi_transactions, issued,
                       dvars, svars, ivars, avars, rvars, cvars>>

\* time passes between requests
Tick ==
    /\ now < MaxTime
    /\ now' = now + 1
    /\ UNCHANGED <<last, pvars, dvars, svars, ivars, avars, rvars, cvars>>


(***************************************************************************)
(* Carts and promo codes (src/cart/models.py, src/cart/views_advanced.py,   *)
(* src/cart/smart_cart.py, src/promotions/views.py).                        *)
(*                                                                          *)
(* carts[c]    [user, session_key]                                          *)
(* items       the CartItem rows [cart, product, quantity] (size and color  *)
(*             are left blank by every request modelled)                    *)
(* applied     the CartPromoCode rows [cart, promo_code, discount_amount]   *)
(* used_count  PromoCode.used_count, by code                                *)
(* sessions    the anonymous browsers that have a session key               *)
(* sold_count  FlashSaleProduct.sold_count                                  *)
(* purchases   Sum('quantity') of the FlashSalePurchase rows, by user       *)
(***************************************************************************)
Browsers == {"b1"}

\* who sends cart requests: a logged-in user and an anonymous browser
Shoppers == {"u1"} \cup Browsers

\* the key request.session.create() gives the browser's session
SessionKeyOf == [b \in Browsers |-> "s1"]

Product == [p \in {"p40"} |-> [price |-> 40 * Dollar, stock |-> 2]]

PromoCodes ==
    [code \in {"FIXED50", "EARLY20", "OLDSHIP"} |->
        CASE code = "FIXED50" ->
                 [discount_type |-> "FIXED", discount_value |-> 50 * Dollar,
                  minimum_order |-> 0, maximum_discount |-> None,
                  is_active |-> TRUE, valid_from |-> 0,
                  valid_until |-> MaxTime, usage_limit |-> 1,
                  first_time_users_only |-> FALSE]
          [] code = "EARLY20" ->
                 [discount_type |-> "PERCENTAGE",
                  discount_value |-> 20 * Dollar,
                  minimum_order |-> 0, maximum_discount |-> 15 * Dollar,
                  is_active |-> TRUE, valid_from |-> 0, valid_until |-> 0,
                  usage_limit |-> None, first_time_users_only |-> TRUE]
          [] OTHER ->
                 [discount_type |-> "FREE_SHIPPING", discount_value |-> 0,
                  minimum_order |-> 0, maximum_discount |-> None,
                  is_active |-> FALSE, valid_from |-> 0,
                  valid_until |-> MaxTime, usage_limit |-> None,
                  first_time_users_only |-> FALSE]]

\* what a request may send as promo_code: a stored code, an unknown one,
\* or nothing
PromoInputCodes == DOMAIN PromoCodes \cup {"NOPE", ""}

FlashSale ==
    [is_active |-> TRUE, start_time |-> 0, end_time |-> 0,
     max_quantity_per_user |-> 3, product |-> "p40", stock_limit |-> 2]

AddQuantities == {1, 2}

CartInit ==
    /\ carts = <<>>
    /\ items = {}
    /\ applied = {}
    /\ used_count = [code \in DOMAIN PromoCodes |-> 0]
    /\ sessions = {}
    /\ sold_count = 0
    /\ purchases = [u \in Users |-> 0]

RECURSIVE ItemsTotal(_)
ItemsTotal(rows) ==
    IF rows = {} THEN 0
    ELSE LET r == CHOOSE r \in rows : TRUE
         IN  Product[r.product].price * r.quantity + ItemsTotal(rows \ {r})

RECURSIVE DiscountsTotal(_)
DiscountsTotal(rows) ==
    IF rows = {} THEN 0
    ELSE LET r == CHOOSE r \in rows : TRUE
         IN  r.discount_amount + DiscountsTotal(rows \ {r})

\* Cart.total_price (Cart.subtotal is the same value)
total_price_AfterDiscounts(c) ==
    ItemsTotal({i \in items : i.cart = c})
        - DiscountsTotal({a \in applied : a.cart = c})

total_price(c) == ItemsTotal({i \in items : i.cart = c})

\* Cart.shipping_cost: free shipping from 100.00
shipping_cost(c) == IF total_price(c) >= 100 * Dollar THEN 0 ELSE 5 * Dollar

\* Cart.tax_amount: subtotal * Decimal('0.08')
tax_amount(c) == (total_price(c) \div 100) * 8

\* Cart.final_total
final_total(c) ==
    total_price(c) + shipping_cost(c) + tax_amount(c)
        - DiscountsTotal({a \in applied : a.cart = c})


\* the fields the Cart and CartItem models declare (src/cart/models.py)
CartFields ==
    {"user", "session_key", "created_at", "updated_at", "is_abandoned",
     "abandoned_at"}

CartItemFields ==
    {"cart", "product", "quantity", "size", "color", "added_at",
     "updated_at"}

\* get_or_create_cart: the cart of request.user, or of the session key (a
\* session is created first when the browser has none).  The result is the
\* Cart table, the cart's index in it and the sessions afterwards.
get_or_create_cart_NoSessionCreate(r) ==
    LET key == IF r \in sessions THEN SessionKeyOf[r] ELSE Null
        M == {c \in DOMAIN carts :
                 IF r \in Users THEN carts[c].user = r
                                ELSE carts[c].session_key = key}
        row == IF r \in Users THEN [user |-> r, session_key |-> Null]
                              ELSE [user |-> Null, session_key |-> key]
    IN  [carts |-> IF M = {} THEN Append(carts, row) ELSE carts,
         cart |-> IF M = {} THEN Len(carts) + 1 ELSE CHOOSE c \in M : TRUE,
         sessions |-> sessions]

get_or_create_cart(r) ==
    LET key == IF r \in Users THEN Null ELSE SessionKeyOf[r]
        M == {c \in DOMAIN carts :
                 IF r \in Users THEN carts[c].user = r
                                ELSE carts[c].session_key = key}
        row == IF r \in Users THEN [user |-> r, session_key |-> Null]
                              ELSE [user |-> Null, session_key |-> key]
    IN  [carts |-> IF M = {} THEN Append(carts, row) ELSE carts,
         cart |-> IF M = {} THEN Len(carts) + 1 ELSE CHOOSE c \in M : TRUE,
         sessions |-> IF r \in Users THEN sessions ELSE sessions \cup {r}]

\* the CartItem row of product p in cart c, as a set (empty: no row)
ItemRows(c, p) == {i \in items : i.cart = c /\ i.product = p}

\* get_cart_count: get_or_create_cart and a read
get_cart_count(r) ==
    LET g == get_or_create_cart(r)
    IN  /\ carts' = g.carts
        /\ sessions' = g.sessions
        /\ Answered("get_cart_count", Null, TRUE)
        /\ UNCHANGED <<now, items, applied, used_count, sold_count,
                       purchases, pvars, dvars, svars, ivars, avars, rvars>>

\* add_to_cart (Product.sales_count and the CartRecommendation rows it also
\* writes are not part of the state)
add_to_cart(r, p, quantity) ==
    LET g == get_or_create_cart(r)
        old == ItemRows(g.cart, p)
        row == CHOOSE i \in old : TRUE
    IN  /\ carts' = g.carts
        /\ sessions' = g.sessions
        /\ IF quantity > Product[p].stock
           THEN /\ UNCHANGED items
                /\ Answered("add_to_cart", Null, FALSE)
           ELSE IF old = {}
           THEN /\ items' = items \cup {[cart |-> g.cart, product |-> p,
                                        quantity |-> quantity]}
                /\ Answered("add_to_cart", Null, TRUE)
           ELSE IF row.quantity + quantity > Product[p].stock
           THEN /\ UNCHANGED items
                /\ Answered("add_to_cart", Null, FALSE)
           ELSE /\ items' = (items \ old) \cup
                       {[row EXCEPT !.quantity = row.quantity + quantity]}
                /\ Answered("add_to_cart", Null, TRUE)
        /\ UNCHANGED <<now, applied, used_count, sold_count, purchases,
                       pvars, dvars, svars, ivars, avars, rvars>>

\* apply_promo_code
apply_promo_code(r, code) ==
    LET g == get_or_create_cart(r)
        c == g.cart
        promo == PromoCodes[code]
        cart_total == total_price(c)
        discount_amount ==
            calculate_discount(promo, used_count[code], now, cart_total)
        refused ==
            \/ code = ""
            \/ code \notin DOMAIN PromoCodes
            \/ ~is_valid(promo, used_count[code], now)
            \/ \E a \in applied : a.cart = c /\ a.promo_code = code
            \/ cart_total < promo.minimum_order
            \/ /\ promo.first_time_users_only
               /\ r \in Users
               /\ \E o \in DOMAIN orders : orders[o].user = r
            \/ discount_amount <= 0
    IN  /\ carts' = g.carts
        /\ sessions' = g.sessions
        /\ IF refused
           THEN /\ UNCHANGED <<applied, used_count>>
                /\ Answered("apply_promo_code", code, FALSE)
           ELSE /\ applied' = applied \cup
                       {[cart |-> c, promo_code |-> code,
                         discount_amount |-> discount_amount]}
                /\ used_count' = [used_count EXCEPT ![code] = @ + 1]
                /\ Answered("apply_promo_code", code, TRUE)
        /\ UNCHANGED <<now, items, sold_count, purchases,
                       pvars, dvars, svars, ivars, avars, rvars>>

\* remove_promo_code: the CartPromoCode row is looked up in the requester's
\* cart (get_object_or_404; the Http404 is swallowed by except Exception)
remove_promo_code_KeepsCount(r, code) ==
    LET g == get_or_create_cart(r)
        rows == {a \in applied : a.cart = g.cart /\ a.promo_code = code}
    IN  /\ carts' = g.carts
        /\ sessions' = g.sessions
        /\ IF rows = {}
           THEN /\ UNCHANGED <<applied, used_count>>
                /\ Answered("remove_promo_code", code, FALSE)
           ELSE /\ UNCHANGED used_count
                /\ applied' = applied \ rows
                /\ Answered("remove_promo_code", code, TRUE)
        /\ UNCHANGED <<now, items, sold_count, purchases,
                       pvars, dvars, svars, ivars, avars, rvars>>

remove_promo_code(r, code) ==
    LET g == get_or_create_cart(r)
        rows == {a \in applied : a.cart = g.cart /\ a.promo_code = code}
    IN  /\ carts' = g.carts
        /\ sessions' = g.sessions
        /\ IF rows = {}
           THEN /\ UNCHANGED <<applied, used_count>>
                /\ Answered("remove_promo_code", code, FALSE)
           ELSE /\ used_count' =
                       [used_count EXCEPT ![code] = Max(0, @ - 1)]
                /\ applied' = applied \ rows
                /\ Answered("remove_promo_code", code, TRUE)
        /\ UNCHANGED <<now, items, sold_count, purchases,
                       pvars, dvars, svars, ivars, avars, rvars>>

\* SmartCart.add_item.  SmartCart() first gives the browser a session
\* (cycle_key).  A logged-in user's cart is looked up by user, and created
\* with session_id among the defaults; an anonymous cart is looked up by
\* session_id; the item is looked up by variant.  A name that is no field of
\* the model raises FieldError or TypeError, which add_item swallows.
SmartCart_add_item(r, p, quantity) ==
    LET mine == {c \in DOMAIN carts : carts[c].user = r}
        lookup_ok == IF r \in Users
                     THEN mine # {} \/ "session_id" \in CartFields
                     ELSE "session_id" \in CartFields
        item_ok == "variant" \in CartItemFields
        c == IF mine # {} THEN CHOOSE x \in mine : TRUE ELSE Len(carts) + 1
    IN  /\ sessions' = IF r \in Users THEN sessions ELSE sessions \cup {r}
        /\ IF ~lookup_ok
           THEN /\ UNCHANGED <<carts, items>>
                /\ Answered("SmartCart.add_item", Null, FALSE)
           ELSE /\ carts' = IF r \in Users /\ mine # {} THEN carts
                            ELSE Append(carts,
                                     [user |-> IF r \in Users THEN r
                                               ELSE Null,
                                      session_key |-> "s1"])
                /\ IF item_ok
                   THEN /\ items' = items \cup {[cart |-> c, product |-> p,
                                                quantity |-> quantity]}
                        /\ Answered("SmartCart.add_item", Null, TRUE)
                   ELSE /\ UNCHANGED items
                        /\ Answered("SmartCart.add_item", Null, FALSE)
        /\ UNCHANGED <<now, applied, used_count, sold_count, purchases,
                       pvars, dvars, svars, ivars, avars, rvars>>

\* SmartCart.merge_cart_on_login: the anonymous cart is looked up by
\* session_id, and every exception is swallowed
merge_cart_on_login(u, b) ==
    /\ sessions' = sessions \cup {b}
    /\ IF "session_id" \notin CartFields
       THEN UNCHANGED <<carts, items>>
       ELSE LET anon == {c \in DOMAIN carts :
                            /\ carts[c].session_key = SessionKeyOf[b]
                            /\ carts[c].user = Null}
            IN  /\ carts' = [c \in DOMAIN carts |->
                                IF c \in anon
                                THEN [carts[c] EXCEPT !.user = u]
                                ELSE carts[c]]
                /\ UNCHANGED items
    /\ Answered("merge_cart_on_login", Null, "session_id" \in CartFields)
    /\ UNCHANGED <<now, applied, used_count, sold_count, purchases, pvars,
                   dvars, svars, ivars, avars, rvars>>

\* FlashSale.is_live
is_live == FlashSale.is_active /\ FlashSale.start_time <= now
               /\ now <= FlashSale.end_time

\* the stock check of add_flash_sale_to_cart, on the sold_count of the
\* FlashSaleProduct instance the request loaded
not_enough_stock_IgnoresQuantity(sold, quantity) ==
    sold > FlashSale.stock_limit

not_enough_stock_Unchecked(sold, quantity) == FALSE

not_enough_stock(sold, quantity) ==
    sold + quantity > FlashSale.stock_limit

\* add_flash_sale_to_cart (login required), one request at a time
add_flash_sale_to_cart(u, quantity) ==
    IF \/ ~is_live
       \/ purchases[u] + quantity > FlashSale.max_quantity_per_user
       \/ not_enough_stock(sold_count, quantity)
    THEN /\ Answered("add_flash_sale_to_cart", Null, FALSE)
         /\ UNCHANGED <<now, cvars, pvars, dvars, svars, ivars, avars, rvars>>
    ELSE LET M == {c \in DOMAIN carts : carts[c].user = u}
             c == IF M = {} THEN Len(carts) + 1 ELSE CHOOSE x \in M : TRUE
             old == ItemRows(c, FlashSale.product)
             row == CHOOSE i \in old : TRUE
         IN  /\ carts' = IF M = {}
                         THEN Append(carts,
                                     [user |-> u, session_key |-> Null])
                         ELSE carts
             /\ items' = IF old = {}
                         THEN items \cup {[cart |-> c,
                                           product |-> FlashSale.product,
                                           quantity |-> quantity]}
                         ELSE (items \ old) \cup
                                  {[row EXCEPT
                                      !.quantity = row.quantity + quantity]}
             /\ purchases' = [purchases EXCEPT ![u] = @ + quantity]
             /\ sold_count' = sold_count + quantity
             /\ Answered("add_flash_sale_to_cart", Null, TRUE)
             /\ UNCHANGED <<now, applied, used_count, sessions,
                            pvars, dvars, svars, ivars, avars, rvars>>

(***************************************************************************)
(* Overlapping requests (src/promotions/views.py add_flash_sale_to_cart,    *)
(* src/cart/views_advanced.py apply_promo_code).  Two workers serve         *)
(* requests; a handler is a sequence of steps, one per group of database    *)
(* statements, and the steps of the two workers interleave.  No handler     *)
(* opens a transaction or locks a row.                                      *)
(*                                                                          *)
(* rq[w]  [pc, who, quantity, code, cart, sold_count, used_count,           *)
(*         item_quantity, discount_amount]: the step the worker's request   *)
(*        is at, who sent it, and the attributes of the model instances     *)
(*        the handler has loaded (flash_sale_product.sold_count,            *)
(*        promo.used_count, cart_item.quantity)                             *)
(***************************************************************************)
Workers == {"w1", "w2"}

IdleRequest ==
    [pc |-> "idle", who |-> Null, quantity |-> 0, code |-> Null, cart |-> 0,
     sold_count |-> 0, used_count |-> 0, item_quantity |-> 0,
     discount_amount |-> 0]

RaceIdle == rq = [w \in Workers |-> IdleRequest]

\* the worker answers its request
Respond(w, op, arg, ok) ==
    /\ rq' = [rq EXCEPT ![w] = IdleRequest]
    /\ Answered(op, arg, ok)

\* the worker goes on to the next step of its handler
Goto(w, next) ==
    /\ rq' = [rq EXCEPT ![w] = next]
    /\ UNCHANGED last

\* add_flash_sale_to_cart: get_object_or_404 loads the FlashSaleProduct
\* (and with it sold_count); flash_sale.is_live
fs_load(w, u, quantity) ==
    /\ rq[w].pc = "idle"
    /\ IF ~is_live
       THEN Respond(w, "add_flash_sale_to_cart", Null, FALSE)
       ELSE Goto(w, [IdleRequest EXCEPT !.pc = "fs_check", !.who = u,
                                        !.quantity = quantity,
                                        !.sold_count = sold_count])
    /\ UNCHANGED <<now, cvars, pvars, dvars, svars, ivars, avars>>

\* the Sum('quantity') query over the user's FlashSalePurchase rows, the
\* per-user check and the stock check
fs_check(w) ==
    /\ rq[w].pc = "fs_check"
    /\ IF \/ purchases[rq[w].who] + rq[w].quantity
                > FlashSale.max_quantity_per_user
          \/ not_enough_stock(rq[w].sold_count, rq[w].quantity)
       THEN Respond(w, "add_flash_sale_to_cart", Null, FALSE)
       ELSE Goto(w, [rq[w] EXCEPT !.pc = "fs_cart"])
    /\ UNCHANGED <<now, cvars, pvars, dvars, svars, ivars, avars>>

\* Cart.objects.get_or_create(user=request.user); Cart.user is not unique,
\* so the query and the insert of get_or_create are taken as one step
fs_cart(w) ==
    LET u == rq[w].who
        M == {c \in DOMAIN carts : carts[c].user = u}
        c == IF M = {} THEN Len(carts) + 1 ELSE CHOOSE x \in M : TRUE
    IN  /\ rq[w].pc = "fs_cart"
        /\ carts' = IF M = {}
                    THEN Append(carts, [user |-> u, session_key |-> Null])
                    ELSE carts
        /\ Goto(w, [rq[w] EXCEPT !.pc = "fs_item", !.cart = c])
        /\ UNCHANGED <<now, items, applied, used_count, sessions,
                       sold_count, purchases,
                       pvars, dvars, svars, ivars, avars>>

\* CartItem.objects.get_or_create(cart, product, defaults={'quantity': q}):
\* the row is created, or loaded with the quantity it has
fs_item(w) ==
    LET old == ItemRows(rq[w].cart, FlashSale.product)
        row == CHOOSE i \in old : TRUE
    IN  /\ rq[w].pc = "fs_item"
        /\ IF old = {}
           THEN /\ items' = items \cup {[cart |-> rq[w].cart,
                                        product |-> FlashSale.product,
                                        quantity |-> rq[w].quantity]}
                /\ Goto(w, [rq[w] EXCEPT !.pc = "fs_purchase"])
           ELSE /\ UNCHANGED items
                /\ Goto(w, [rq[w] EXCEPT !.pc = "fs_item_save",
                                         !.item_quantity = row.quantity])
        /\ UNCHANGED <<now, carts, applied, used_count, sessions,
                       sold_count, purchases,
                       pvars, dvars, svars, ivars, avars>>

\* cart_item.quantity += quantity; cart_item.save(): the quantity written
\* is computed from the quantity loaded
fs_item_save(w) ==
    LET old == ItemRows(rq[w].cart, FlashSale.product)
    IN  /\ rq[w].pc = "fs_item_save"
        /\ items' = (items \ old) \cup
                        {[cart |-> rq[w].cart,
                          product |-> FlashSale.product,
                          quantity |-> rq[w].item_quantity
                                           + rq[w].quantity]}
        /\ Goto(w, [rq[w] EXCEPT !.pc = "fs_purchase"])
        /\ UNCHANGED <<now, carts, applied, used_count, sessions,
                       sold_count, purchases,
                       pvars, dvars, svars, ivars, avars>>

\* FlashSalePurchase.objects.create
fs_purchase(w) ==
    /\ rq[w].pc = "fs_purchase"
    /\ purchases' = [purchases EXCEPT ![rq[w].who] = @ + rq[w].quantity]
    /\ Goto(w, [rq[w] EXCEPT !.pc = "fs_sold"])
    /\ UNCHANGED <<now, carts, items, applied, used_count, sessions,
                   sold_count, pvars, dvars, svars, ivars, avars>>

\* flash_sale_product.sold_count = F('sold_count') + quantity; save(): the
\* UPDATE adds to the stored value, whatever value the instance loaded
fs_sold_ReadModifyWrite(w) ==
    /\ rq[w].pc = "fs_sold"
    /\ sold_count' = rq[w].sold_count + rq[w].quantity
    /\ Respond(w, "add_flash_sale_to_cart", Null, TRUE)
    /\ UNCHANGED <<now, carts, items, applied, used_count, sessions,
                   purchases, pvars, dvars, svars, ivars, avars>>

fs_sold(w) ==
    /\ rq[w].pc = "fs_sold"
    /\ sold_count' = sold_count + rq[w].quantity
    /\ Respond(w, "add_flash_sale_to_cart", Null, TRUE)
    /\ UNCHANGED <<now, carts, items, applied, used_count, sessions,
                   purchases, pvars, dvars, svars, ivars, avars>>

\* apply_promo_code: get_or_create_cart, PromoCode.objects.get (which loads
\* used_count) and promo.is_valid
ap_load(w, r, code) ==
    LET g == get_or_create_cart(r)
    IN  /\ rq[w].pc = "idle"
        /\ carts' = g.carts
        /\ sessions' = g.sessions
        /\ IF \/ code = ""
              \/ code \notin DOMAIN PromoCodes
              \/ ~is_valid(PromoCodes[code], used_count[code], now)
           THEN Respond(w, "apply_promo_code", code, FALSE)
           ELSE Goto(w, [IdleRequest EXCEPT
                             !.pc = "ap_check", !.who = r, !.code = code,
                             !.cart = g.cart,
                             !.used_count = used_count[code]])
        /\ UNCHANGED <<now, items, applied, used_count, sold_count,
                       purchases, pvars, dvars, svars, ivars, avars>>

\* the already-applied, minimum-order and first-time checks and
\* calculate_discount, on the promo instance loaded
ap_check_CreatesBeforeDiscountCheck(w) ==
    LET c == rq[w].cart
        code == rq[w].code
        promo == PromoCodes[code]
        cart_total == total_price(c)
        discount_amount ==
            calculate_discount(promo, rq[w].used_count, now, cart_total)
    IN  /\ rq[w].pc = "ap_check"
        /\ IF \/ \E a \in applied : a.cart = c /\ a.promo_code = code
              \/ cart_total < promo.minimum_order
              \/ /\ promo.first_time_users_only
                 /\ rq[w].who \in Users
                 /\ \E o \in DOMAIN orders : orders[o].user = rq[w].who
           THEN /\ UNCHANGED applied
                /\ Respond(w, "apply_promo_code", code, FALSE)
           ELSE IF discount_amount <= 0
           THEN /\ applied' = applied \cup
                       {[cart |-> c, promo_code |-> code,
                         discount_amount |-> discount_amount]}
                /\ Respond(w, "apply_promo_code", code, FALSE)
           ELSE /\ UNCHANGED applied
                /\ Goto(w, [rq[w] EXCEPT !.pc = "ap_create",
                                         !.discount_amount = discount_amount])
        /\ UNCHANGED <<now, carts, items, used_count, sessions, sold_count,
                       purchases, pvars, dvars, svars, ivars, avars>>

ap_check(w) ==
    LET c == rq[w].cart
        code == rq[w].code
        promo == PromoCodes[code]
        cart_total == total_price(c)
        discount_amount ==
            calculate_discount(promo, rq[w].used_count, now, cart_total)
    IN  /\ rq[w].pc = "ap_check"
        /\ IF \/ \E a \in applied : a.cart = c /\ a.promo_code = code
              \/ cart_total < promo.minimum_order
              \/ /\ promo.first_time_users_only
                 /\ rq[w].who \in Users
                 /\ \E o \in DOMAIN orders : orders[o].user = rq[w].who
              \/ discount_amount <= 0
           THEN Respond(w, "apply_promo_code", code, FALSE)
           ELSE Goto(w, [rq[w] EXCEPT !.pc = "ap_create",
                                      !.discount_amount = discount_amount])
        /\ UNCHANGED <<now, cvars, pvars, dvars, svars, ivars, avars>>

\* CartPromoCode.objects.create; (cart, promo_code) is unique, so a second
\* row for the pair raises IntegrityError, which except Exception turns
\* into an answer with success false and str(e) as its message
ap_create(w) ==
    LET c == rq[w].cart
        code == rq[w].code
    IN  /\ rq[w].pc = "ap_create"
        /\ IF \E a \in applied : a.cart = c /\ a.promo_code = code
           THEN /\ UNCHANGED applied
                /\ rq' = [rq EXCEPT ![w] = IdleRequest]
                /\ Refused("apply_promo_code", "IntegrityError")
           ELSE /\ applied' = applied \cup
                       {[cart |-> c, promo_code |-> code,
                         discount_amount |-> rq[w].discount_amount]}
                /\ Goto(w, [rq[w] EXCEPT !.pc = "ap_save"])
        /\ UNCHANGED <<now, carts, items, used_count, sessions, sold_count,
                       purchases, pvars, dvars, svars, ivars, avars>>

\* promo.used_count += 1; promo.save(): the count written is computed from
\* the count loaded
ap_save(w) ==
    /\ rq[w].pc = "ap_save"
    /\ used_count' = [used_count EXCEPT
                         ![rq[w].code] = rq[w].used_count + 1]
    /\ Respond(w, "apply_promo_code", rq[w].code, TRUE)
    /\ UNCHANGED <<now, carts, items, applied, sessions, sold_count,
                   purchases, pvars, dvars, svars, ivars, avars>>

(***************************************************************************)
(* Webhook signatures (src/payments/pi_network.py PiPaymentValidator).      *)
(*                                                                          *)
(* sig_data    the body of the Pi callback: [identifier, status, signature] *)
(* sig_key     the secret key the signature would be checked against        *)
(* sig_result  what verify_payment_signature returned, as a sequence (empty: *)
(*             not called yet)                                              *)
(***************************************************************************)
SigBodies ==
    [identifier : {ProviderId(1), "unknown"},
     status : {"completed", "cancelled"},
     signature : {Null, "forged", "k1"}]

SecretKeys == {"k1", "k2"}

SigIdle ==
    /\ sig_data = [identifier |-> Null, status |-> Null, signature |-> Null]
    /\ sig_key = Null
    /\ sig_result = <<>>

\* PiPaymentValidator.verify_payment_signature
verify_payment_signature_Compares(payment_data, secret_key) ==
    payment_data.signature = secret_key

verify_payment_signature(payment_data, secret_key) == TRUE

VerifySignature ==
    /\ sig_result = <<>>
    /\ sig_result' = <<verify_payment_signature(sig_data, sig_key)>>
    /\ UNCHANGED <<sig_data, sig_key,
                   dvars, evars, pvars, cvars, rvars, ivars, avars>>

(***************************************************************************)
(* Cart items and the saved-for-later list (src/cart/views_advanced.py).    *)
(*                                                                          *)
(* saved      the SavedForLater rows [user, product]                        *)
(* abandoned  the AbandonedCart rows, by recovery token:                    *)
(*            [recovered, product, quantity] (cart_data with one item)      *)
(*                                                                          *)
(* A CartItem is named by its row: with size and color blank, (cart,        *)
(* product) is unique.  NoItem stands for an id that no CartItem has.       *)
(***************************************************************************)
NoItem == [cart |-> 0, product |-> Null, quantity |-> 0]

\* what a request may send as quantity
UpdateQuantities == {0, 1, 2, 3}

ItemQuantities == {0, 1, 2}

\* the quantity in the cart_data of the AbandonedCart row
RecoveryQuantities == {1, 3}

\* no SavedForLater row; no AbandonedCart row (no view creates one)
ItemsIdle ==
    /\ saved = {}
    /\ abandoned = <<>>

\* an AbandonedCart row stored through the admin, with its recovery token
ItemsInit ==
    /\ saved = {}
    /\ abandoned \in
           {[t \in {"t1"} |-> [recovered |-> FALSE, product |-> "p40",
                               quantity |-> q]] : q \in RecoveryQuantities}

\* the ownership test of update_cart_item, remove_cart_item, save_for_later
owns_Everything(cart, item) == TRUE

owns(cart, item) == item.cart = cart

\* update_cart_item
update_cart_item(r, item, quantity) ==
    LET g == get_or_create_cart(r)
    IN  /\ IF item \notin items
           THEN /\ Refused("update_cart_item", "Not Found")
                /\ UNCHANGED <<carts, sessions, items>>
           ELSE /\ carts' = g.carts
                /\ sessions' = g.sessions
                /\ IF ~owns(g.cart, item)
                   THEN /\ Refused("update_cart_item", "Unauthorized")
                        /\ UNCHANGED items
                   ELSE IF quantity > Product[item.product].stock
                   THEN /\ Refused("update_cart_item", "Only in stock")
                        /\ UNCHANGED items
                   ELSE IF quantity <= 0
                   THEN /\ items' = items \ {item}
                        /\ Answered("update_cart_item", Null, TRUE)
                   ELSE /\ items' = (items \ {item}) \cup
                               {[item EXCEPT !.quantity = quantity]}
                        /\ Answered("update_cart_item", Null, TRUE)
        /\ UNCHANGED <<now, applied, used_count, sold_count, purchases,
                       pvars, dvars, svars, rvars, avars, ivars>>

\* remove_cart_item
remove_cart_item(r, item) ==
    LET g == get_or_create_cart(r)
    IN  /\ IF item \notin items
           THEN /\ Refused("remove_cart_item", "Not Found")
                /\ UNCHANGED <<carts, sessions, items>>
           ELSE /\ carts' = g.carts
                /\ sessions' = g.sessions
                /\ IF ~owns(g.cart, item)
                   THEN /\ Refused("remove_cart_item", "Unauthorized")
                        /\ UNCHANGED items
                   ELSE /\ items' = items \ {item}
                        /\ Answered("remove_cart_item", Null, TRUE)
        /\ UNCHANGED <<now, applied, used_count, sold_count, purchases,
                       pvars, dvars, svars, rvars, avars, ivars>>

\* save_for_later (login required)
save_for_later(u, item) ==
    LET g == get_or_create_cart(u)
    IN  /\ IF item \notin items
           THEN /\ Refused("save_for_later", "Not Found")
                /\ UNCHANGED <<carts, sessions, items, saved>>
           ELSE /\ carts' = g.carts
                /\ sessions' = g.sessions
                /\ IF ~owns(g.cart, item)
                   THEN /\ Refused("save_for_later", "Unauthorized")
                        /\ UNCHANGED <<items, saved>>
                   ELSE /\ saved' = saved \cup
                               {[user |-> u, product |-> item.product]}
                        /\ items' = items \ {item}
                        /\ Answered("save_for_later", Null, TRUE)
        /\ UNCHANGED <<now, applied, used_count, sold_count, purchases,
                       pvars, dvars, svars, rvars, avars, abandoned>>

\* move_to_cart (login required): the item's quantity grows by one without
\* a look at the stock left
move_to_cart(u, p) ==
    LET g == get_or_create_cart(u)
        old == {i \in items : i.cart = g.cart /\ i.product = p}
        row == CHOOSE i \in old : TRUE
    IN  /\ IF [user |-> u, product |-> p] \notin saved
           THEN /\ Refused("move_to_cart", "Not Found")
                /\ UNCHANGED <<carts, sessions, items, saved>>
           ELSE /\ carts' = g.carts
                /\ sessions' = g.sessions
                /\ IF Product[p].stock <= 0
                   THEN /\ Refused("move_to_cart", "Product is out of stock")
                        /\ UNCHANGED <<items, saved>>
                   ELSE /\ items' =
                               IF old = {}
                               THEN items \cup {[cart |-> g.cart, product |-> p,
                                                 quantity |-> 1]}
                               ELSE (items \ old) \cup
                                    {[row EXCEPT !.quantity = row.quantity + 1]}
                        /\ saved' = saved \ {[user |-> u, product |-> p]}
                        /\ Answered("move_to_cart", Null, TRUE)
        /\ UNCHANGED <<now, applied, used_count, sold_count, purchases,
                       pvars, dvars, svars, rvars, avars, abandoned>>

\* cart_recovery: an item of cart_data is restored when the stock covers its
\* quantity and the cart has no row for the product yet
cart_recovery(r, token) ==
    LET g == get_or_create_cart(r)
        a == abandoned[token]
        old == {i \in items : i.cart = g.cart /\ i.product = a.product}
    IN  /\ IF token \notin DOMAIN abandoned
           THEN /\ Refused("cart_recovery", "Unable to recover cart.")
                /\ UNCHANGED <<carts, sessions, items, abandoned>>
           ELSE IF a.recovered
           THEN /\ Refused("cart_recovery", "already recovered")
                /\ UNCHANGED <<carts, sessions, items, abandoned>>
           ELSE /\ carts' = g.carts
                /\ sessions' = g.sessions
                /\ items' =
                       IF Product[a.product].stock >= a.quantity /\ old = {}
                       THEN items \cup {[cart |-> g.cart, product |-> a.product,
                                         quantity |-> a.quantity]}
                       ELSE items
                /\ abandoned' = [abandoned EXCEPT ![token].recovered = TRUE]
                /\ Answered("cart_recovery", Null, TRUE)
        /\ UNCHANGED <<now, applied, used_count, sold_count, purchases,
                       pvars, dvars, svars, rvars, avars, saved>>

\* clear_cart (login required): Cart.clear_cart deletes the cart's items
clear_cart(u) ==
    LET g == get_or_create_cart(u)
    IN  /\ carts' = g.carts
        /\ sessions' = g.sessions
        /\ items' = {i \in items : i.cart # g.cart}
        /\ Answered("clear_cart", Null, TRUE)
        /\ UNCHANGED <<now, applied, used_count, sold_count, purchases,
                       pvars, dvars, svars, rvars, avars, ivars>>

(***************************************************************************)
(* Shipping addresses (src/shipping/models.py, src/shipping/views.py).      *)
(*                                                                          *)
(* addresses[i]  [user, is_default, live]: the ShippingAddress with id i;   *)
(*               a deleted row keeps its id and is not live                 *)
(***************************************************************************)
MaxAddresses == 3

AddressIdle == addresses = <<>>

DeletedAddress == [user |-> Null, is_default |-> FALSE, live |-> FALSE]

\* ShippingAddress.objects.filter(user=u).exclude(id=exclude)
\*     .update(is_default=False); exclude 0 excludes no row
update_is_default_False_Noop(rows, u, exclude) == rows

update_is_default_False(rows, u, exclude) ==
    [i \in DOMAIN rows |->
        IF rows[i].user = u /\ i # exclude
        THEN [rows[i] EXCEPT !.is_default = FALSE]
        ELSE rows[i]]

\* ShippingAddress.save: the row is written under id i (a new id inserts it)
ShippingAddress_save(rows, i, row) ==
    LET base == IF row.is_default
                THEN update_is_default_False(rows, row.user, 0)
                ELSE rows
    IN  IF i = Len(rows) + 1 THEN Append(base, row)
        ELSE [base EXCEPT ![i] = row]

\* get_object_or_404(ShippingAddress, id=address_id, user=request.user)
AddressOf(u, i) ==
    /\ i \in DOMAIN addresses
    /\ addresses[i].live
    /\ addresses[i].user = u

\* add_shipping_address: valid is form.is_valid()
add_shipping_address(u, valid, is_default) ==
    /\ Len(addresses) < MaxAddresses
    /\ IF ~valid
       THEN /\ UNCHANGED addresses
            /\ Answered("add_shipping_address", Null, FALSE)
       ELSE LET row == [user |-> u, is_default |-> is_default,
                        live |-> TRUE]
                others == IF is_default
                          THEN update_is_default_False(addresses, u, 0)
                          ELSE addresses
            IN  /\ addresses' =
                       ShippingAddress_save(others, Len(addresses) + 1, row)
                /\ Answered("add_shipping_address", Null, TRUE)
    /\ UNCHANGED <<now, pvars, cvars, dvars, svars, rvars, ivars>>

\* edit_shipping_address
edit_shipping_address(u, i, valid, is_default) ==
    /\ IF ~AddressOf(u, i) \/ ~valid
       THEN /\ UNCHANGED addresses
            /\ Answered("edit_shipping_address", Null, FALSE)
       ELSE LET row == [addresses[i] EXCEPT !.is_default = is_default]
                others == IF is_default
                          THEN update_is_default_False(addresses, u, i)
                          ELSE addresses
            IN  /\ addresses' = ShippingAddress_save(others, i, row)
                /\ Answered("edit_shipping_address", Null, TRUE)
    /\ UNCHANGED <<now, pvars, cvars, dvars, svars, rvars, ivars>>

\* delete_shipping_address
delete_shipping_address(u, i) ==
    /\ IF ~AddressOf(u, i)
       THEN /\ UNCHANGED addresses
            /\ Answered("delete_shipping_address", Null, FALSE)
       ELSE /\ addresses' = [addresses EXCEPT ![i] = DeletedAddress]
            /\ Answered("delete_shipping_address", Null, TRUE)
    /\ UNCHANGED <<now, pvars, cvars, dvars, svars, rvars, ivars>>

\* set_default_address
set_default_address(u, i) ==
    /\ IF ~AddressOf(u, i)
       THEN /\ UNCHANGED addresses
            /\ Answered("set_default_address", Null, FALSE)
       ELSE LET others == update_is_default_False(addresses, u, 0)
                row == [others[i] EXCEPT !.is_default = TRUE]
            IN  /\ addresses' = ShippingAddress_save(others, i, row)
                /\ Answered("set_default_address", Null, TRUE)
    /\ UNCHANGED <<now, pvars, cvars, dvars, svars, rvars, ivars>>

DiscountInputs ==
    /\ dPromo \in PromoInputs
    /\ dTotal \in CartTotals
    /\ dNow \in 0..MaxTime
    /\ dResult = None
    /\ dPc = "start"

InitDiscount ==
    DiscountInputs /\ EnvInit /\ PayInit /\ CartInit /\ SigIdle /\ RaceIdle
        /\ ItemsIdle /\ AddressIdle

CalculateDiscount ==
    /\ dPc = "start"
    /\ dResult' = calculate_discount(dPromo, dPromo.used_count, dNow, dTotal)
    /\ dPc' = "done"
    /\ UNCHANGED <<dPromo, dTotal, dNow, evars, pvars, cvars,
                   svars, ivars, avars, rvars>>

NextDiscount == CalculateDiscount

SpecDiscount == InitDiscount /\ [][NextDiscount]_vars

PiCallbackStatuses == {"completed", "cancelled", "pending", Null}

InitPay ==
    EnvInit /\ PayInit /\ DiscountIdle /\ CartInit /\ SigIdle /\ RaceIdle
        /\ ItemsIdle /\ AddressIdle

NextPay ==
    \/ Tick
    \/ \E u \in Buyers : buy_now(u)
    \/ \E u \in Users, o \in 1..MaxOrders, stk \in {"raise", "id", "noid"} :
           pay_order(u, o, stk)
    \/ \E u \in Users, o \in 1..MaxOrders, api \in {"raise", "id"} :
           pay_order_pi_api(u, o, api)
    \/ \E u \in Users, o \in 1..MaxOrders : pay_order_pi_manual(u, o)
    \/ \E id \in CallbackIds, code \in {0, 1} : mpesa_callback(id, code)
    \/ \E id \in CallbackIds, st \in PiCallbackStatuses :
           pi_payment_callback(id, st)
    \/ \E i \in 1..MaxOrders, action \in {"confirm", "reject"} :
           confirm_pi_payment(i, action)
    \/ \E u \in Users, i \in 1..MaxOrders,
          api \in {"raise", "completed", "pending"} :
           check_pi_payment_status(u, i, api)
    \/ \E o \in 1..MaxOrders : mark_as_paid(o)
    \/ \E o \in 1..MaxOrders : mark_as_unpaid(o)
    \/ \E api \in {"raise", "ok"} : send_money_to_phone(api)
    \/ \E id \in CallbackIds \ {Null}, code \in {"0", "1"} :
           mpesa_b2c_result_callback(id, code)

SpecPay == InitPay /\ [][NextPay]_vars

InitCart ==
    EnvInit /\ CartInit /\ PayInit /\ DiscountIdle /\ SigIdle /\ RaceIdle
        /\ ItemsIdle /\ AddressIdle

NextCart ==
    \/ Tick
    \/ \E r \in Shoppers : get_cart_count(r)
    \/ \E r \in Shoppers, p \in DOMAIN Product, q \in AddQuantities :
           add_to_cart(r, p, q)
    \/ \E r \in Shoppers, code \in PromoInputCodes : apply_promo_code(r, code)
    \/ \E r \in Shoppers, code \in DOMAIN PromoCodes :
           remove_promo_code(r, code)
    \/ \E r \in Shoppers, p \in DOMAIN Product :
           SmartCart_add_item(r, p, 1)
    \/ \E b \in Browsers : merge_cart_on_login("u1", b)
    \/ \E q \in AddQuantities : add_flash_sale_to_cart("u1", q)

SpecCart == InitCart /\ [][NextCart]_vars

InitSignature ==
    /\ EnvInit /\ PayInit /\ DiscountIdle /\ CartInit /\ RaceIdle
    /\ ItemsIdle /\ AddressIdle
    /\ sig_data \in SigBodies
    /\ sig_key \in SecretKeys
    /\ sig_result = <<>>

\* a Pi payment is started and the callback with body sig_data is delivered;
\* pi_payment_callback does not call verify_payment_signature
NextSignature ==
    \/ VerifySignature
    \/ \E u \in Buyers : buy_now(u)
    \/ \E u \in Users, o \in 1..MaxOrders, api \in {"raise", "id"} :
           pay_order_pi_api(u, o, api)
    \/ pi_payment_callback(sig_data.identifier, sig_data.status)

SpecSignature == InitSignature /\ [][NextSignature]_vars

InitRace ==
    EnvInit /\ CartInit /\ PayInit /\ DiscountIdle /\ SigIdle /\ RaceIdle
        /\ ItemsIdle /\ AddressIdle

\* two workers serving add_flash_sale_to_cart requests
NextFlashRace ==
    \/ Tick
    \/ \E w \in Workers, u \in Users, q \in AddQuantities :
           fs_load(w, u, q)
    \/ \E w \in Workers : fs_check(w)
    \/ \E w \in Workers : fs_cart(w)
    \/ \E w \in Workers : fs_item(w)
    \/ \E w \in Workers : fs_item_save(w)
    \/ \E w \in Workers : fs_purchase(w)
    \/ \E w \in Workers : fs_sold(w)

SpecFlashRace == InitRace /\ [][NextFlashRace]_vars

\* two workers serving apply_promo_code requests, and add_to_cart requests
\* served between their steps
NextPromoRace ==
    \/ Tick
    \/ \E r \in Shoppers, p \in DOMAIN Product : add_to_cart(r, p, 1)
    \/ \E w \in Workers, r \in Shoppers, code \in PromoInputCodes :
           ap_load(w, r, code)
    \/ \E w \in Workers : ap_check(w)
    \/ \E w \in Workers : ap_create(w)
    \/ \E w \in Workers : ap_save(w)

SpecPromoRace == InitRace /\ [][NextPromoRace]_vars

\* the promo codes the shoppers of SpecItems enter
ItemsPromoCodes == {"FIXED50"}

InitItems ==
    /\ EnvInit /\ CartInit /\ PayInit /\ DiscountIdle /\ SigIdle /\ RaceIdle
    /\ ItemsInit /\ AddressIdle

\* the cart-item, saved-for-later and promo-code requests, one at a time
NextItems ==
    \/ \E r \in Shoppers, p \in DOMAIN Product, q \in ItemQuantities :
           add_to_cart(r, p, q)
    \/ \E r \in Shoppers, i \in items \cup {NoItem},
          q \in UpdateQuantities : update_cart_item(r, i, q)
    \/ \E r \in Shoppers, i \in items \cup {NoItem} : remove_cart_item(r, i)
    \/ \E i \in items \cup {NoItem} : save_for_later("u1", i)
    \/ \E p \in DOMAIN Product : move_to_cart("u1", p)
    \/ \E r \in Shoppers, t \in {"t1", "t2"} : cart_recovery(r, t)
    \/ clear_cart("u1")
    \/ \E r \in Shoppers, code \in ItemsPromoCodes :
           apply_promo_code(r, code)
    \/ \E r \in Shoppers, code \in ItemsPromoCodes :
           remove_promo_code(r, code)

SpecItems == InitItems /\ [][NextItems]_vars

InitShipping ==
    /\ EnvInit /\ CartInit /\ PayInit /\ DiscountIdle /\ SigIdle /\ RaceIdle
    /\ ItemsIdle /\ AddressIdle

NextShipping ==
    \/ \E u \in Users, valid \in BOOLEAN, is_default \in BOOLEAN :
           add_shipping_address(u, valid, is_default)
    \/ \E u \in Users, i \in 1..MaxAddresses, valid \in BOOLEAN,
          is_default \in BOOLEAN :
           edit_shipping_address(u, i, valid, is_default)
    \/ \E u \in Users, i \in 1..MaxAddresses : delete_shipping_address(u, i)
    \/ \E u \in Users, i \in 1..MaxAddresses : set_default_address(u, i)

SpecShipping == InitShipping /\ [][NextShipping]_vars

dValid == is_valid(dPromo, dPromo.used_count, dNow)

(***************************************************************************)
(* C1 (as claimed): for every valid promo code and every cart total >= 0    *)
(* the discount d satisfies                                                 *)
(*   0 <= d <= min(cart_total, maximum_discount if set else cart_total),    *)
(* for every discount type and every discount_value.                        *)
(***************************************************************************)
C1_DiscountWithinBounds ==
    (dPc = "done" /\ dValid) =>
        /\ 0 <= dResult
        /\ dResult <= Min(dTotal, IF dPromo.maximum_discount # None
                                  THEN dPromo.maximum_discount
                                  ELSE dTotal)

(***************************************************************************)
(* The reference operator of C2, written from the claim: cart_total *       *)
(* discount_value / 100 for PERCENTAGE, capped when capSet holds;           *)
(* min(discount_value, cart_total) for FIXED; 5.00 for FREE_SHIPPING;       *)
(* 0 otherwise.                                                             *)
(***************************************************************************)
RefDiscount(promo, valid, cart_total, capSet) ==
    LET pct == (cart_total \div 100) * (promo.discount_value \div Dollar)
    IN  IF ~valid \/ cart_total < promo.minimum_order THEN 0
        ELSE IF promo.discount_type = "PERCENTAGE"
             THEN IF capSet /\ promo.maximum_discount < pct
                  THEN promo.maximum_discount
                  ELSE pct
        ELSE IF promo.discount_type = "FIXED"
             THEN IF promo.discount_value < cart_total
                  THEN promo.discount_value
                  ELSE cart_total
        ELSE IF promo.discount_type = "FREE_SHIPPING" THEN 5 * Dollar
        ELSE 0

(***************************************************************************)
(* C2 (as claimed): calculate_discount agrees with the reference operator,  *)
(* where PERCENTAGE is capped at maximum_discount whenever maximum_discount *)
(* is set (not None).                                                       *)
(***************************************************************************)
C2_AgreesWithReference ==
    dPc = "done" =>
        dResult = RefDiscount(dPromo, dValid, dTotal,
                              dPromo.maximum_discount # None)

(***************************************************************************)
(* C2 (amended): calculate_discount agrees with the reference operator,     *)
(* where PERCENTAGE is capped at maximum_discount when maximum_discount is  *)
(* set and not zero (a maximum_discount of 0.00 is treated as no cap).      *)
(***************************************************************************)
C2_AgreesWithReferenceNonZeroCap ==
    dPc = "done" =>
        dResult = RefDiscount(dPromo, dValid, dTotal,
                              dPromo.maximum_discount # None
                                  /\ dPromo.maximum_discount # 0)

(* C2 witness: total 100, PERCENTAGE 20%, cap 15 gives 15. *)
C2_Witness ==
    /\ dPc = "done"
    /\ dValid
    /\ dPromo.discount_type = "PERCENTAGE"
    /\ dPromo.discount_value = 20 * Dollar
    /\ dPromo.maximum_discount = 15 * Dollar
    /\ dTotal = 100 * Dollar
    /\ dResult = 15 * Dollar

(***************************************************************************)
(* The CartPromoCode rows a step creates.                                   *)
(***************************************************************************)
NewlyApplied == applied' \ applied

FixedAtLeastTotal(a) ==
    /\ PromoCodes[a.promo_code].discount_type = "FIXED"
    /\ PromoCodes[a.promo_code].discount_value >= total_price(a.cart)

(***************************************************************************)
(* C3 (as claimed): when a valid FIXED promo whose discount_value is at     *)
(* least the cart total is applied with apply_promo_code (cart total 40,    *)
(* FIXED 50), the stored discount equals the cart total and the cart's      *)
(* final total is 0.                                                        *)
(***************************************************************************)
C3_FixedClampedFinalTotalZero ==
    [][\A a \in NewlyApplied :
          FixedAtLeastTotal(a) =>
              /\ a.discount_amount = total_price(a.cart)
              /\ final_total(a.cart)' = 0]_vars

(***************************************************************************)
(* C3 (amended): when a valid FIXED promo whose discount_value is at least  *)
(* the cart total is applied with apply_promo_code, the stored discount     *)
(* equals the cart total, and the cart's final total is its shipping cost   *)
(* plus its tax minus the discounts of the other promo codes applied to     *)
(* it: 5.00 + 3.20 = 8.20 for a cart total of 40 with FIXED 50 as the only  *)
(* code.                                                                    *)
(***************************************************************************)
C3_FixedClampedFinalTotalShippingAndTax ==
    [][\A a \in NewlyApplied :
          FixedAtLeastTotal(a) =>
              LET others == {b \in applied : b.cart = a.cart}
              IN  /\ a.discount_amount = total_price(a.cart)
                  /\ final_total(a.cart)' =
                         shipping_cost(a.cart) + tax_amount(a.cart)
                             - DiscountsTotal(others)
                  /\ (total_price(a.cart) = 40 * Dollar /\ others = {})
                         => final_total(a.cart)' = 820 * Cent]_vars

(* C3 witness: FIXED50 was applied to a cart whose total is 40; the row     *)
(* stores 40 and the final total is 8.20.                                   *)
C3_Witness ==
    /\ last.op = "apply_promo_code"
    /\ last.arg = "FIXED50"
    /\ last.ok
    /\ \E c \in DOMAIN carts :
           /\ total_price(c) = 40 * Dollar
           /\ {a \in applied : a.cart = c} =
                  {[cart |-> c, promo_code |-> "FIXED50",
                    discount_amount |-> 40 * Dollar]}
           /\ final_total(c) = 820 * Cent

C6_CartHasExactlyOneOwner ==
    \A c \in DOMAIN carts :
        (carts[c].user # Null) # (carts[c].session_key \notin {Null, ""})

(* C6 witness: a user's cart and an anonymous session's cart both exist,    *)
(* and SmartCart.add_item has just been served.                             *)
C6_Witness ==
    /\ last.op = "SmartCart.add_item"
    /\ \E c \in DOMAIN carts : carts[c].user = "u1"
    /\ \E c \in DOMAIN carts : carts[c].session_key = "s1"
    /\ sold_count > 0

(***************************************************************************)
(* C5: a payment callback whose identifier matches no stored record         *)
(* (CheckoutRequestID for mpesa_callback, identifier for                    *)
(* pi_payment_callback, ConversationID for mpesa_b2c_result_callback)       *)
(* leaves every Payment row and every Order unchanged.                      *)
(***************************************************************************)
Unmatched(id, field) ==
    id = Null \/ \A i \in DOMAIN payments : payments[i][field] # id

UnmatchedB2C(id) ==
    \A t \in DOMAIN b2c_transactions :
        b2c_transactions[t].conversation_id # id

C5_UnknownCallbackChangesNothing ==
    [][\/ UNCHANGED <<payments, orders>>
       \/ /\ last'.op = "mpesa_callback" =>
                 \A id \in CallbackIds :
                     ~(/\ Unmatched(id, "payment_id")
                       /\ \E code \in {0, 1} : mpesa_callback(id, code))
          /\ last'.op = "pi_payment_callback" =>
                 \A id \in CallbackIds :
                     ~(/\ Unmatched(id, "pi_payment_id")
                       /\ \E st \in PiCallbackStatuses :
                              pi_payment_callback(id, st))
          /\ last'.op = "mpesa_b2c_result_callback" =>
                 \A id \in CallbackIds \ {Null} :
                     ~(/\ UnmatchedB2C(id)
                       /\ \E code \in {"0", "1"} :
                              mpesa_b2c_result_callback(id, code))]_vars

(* C5 witness: mpesa_callback was served, found no Payment for its          *)
(* CheckoutRequestID, and a pending Payment is stored.                      *)
C5_Witness ==
    /\ last.op = "mpesa_callback"
    /\ last.was = Null
    /\ last.ok = TRUE
    /\ \E i \in DOMAIN payments : /\ payments[i].status = "pending"
                                  /\ payments[i].payment_method = "mpesa"
                                  /\ ~orders[payments[i].order].is_paid

(***************************************************************************)
(* A step creates a Payment or changes the status of one.                   *)
(***************************************************************************)
StatusChanged ==
    \E i \in DOMAIN payments' :
        i \notin DOMAIN payments \/ payments'[i].status # payments[i].status

C9_DuplicateSuccessRerunsSideEffects ==
    [][/\ last'.op = "mpesa_callback" =>
              \A i \in DOMAIN payments :
                  (/\ payments[i].status = "completed"
                   /\ payments[i].payment_id # ""
                   /\ mpesa_callback(payments[i].payment_id, 0))
                      => orders'[payments[i].order].is_paid
       /\ last'.op = "pi_payment_callback" =>
              \A i \in DOMAIN payments :
                  (/\ payments[i].status = "completed"
                   /\ payments[i].pi_payment_id \notin {Null, ""}
                   /\ pi_payment_callback(payments[i].pi_payment_id,
                                          "completed"))
                      => /\ orders'[payments[i].order].is_paid
                         /\ \A t \in DOMAIN pi_transactions :
                                pi_transactions[t].payment = i =>
                                    /\ pi_transactions'[t].status = "completed"
                                    /\ pi_transactions'[t].completed_at = now
      ]_vars

(* C9 witness: a success callback was served for a Payment that was already *)
(* completed, after the clock had advanced, and the transaction carries the *)
(* time of this second delivery.                                            *)
C9_Witness ==
    /\ last.op = "pi_payment_callback"
    /\ last.was = "completed"
    /\ last.ok = TRUE
    /\ Len(payments) = 1
    /\ payments[1].status = "completed"
    /\ orders[payments[1].order].is_paid
    /\ now > 0
    /\ \E t \in DOMAIN pi_transactions :
           /\ pi_transactions[t].payment = 1
           /\ pi_transactions[t].completed_at = now

(***************************************************************************)
(* C10: each Order has at most one Payment, after any sequence of pay_order *)
(* and pay_order_pi requests, repeated attempts on the same unpaid order    *)
(* included.                                                                *)
(***************************************************************************)
C10_AtMostOnePaymentPerOrder ==
    \A i, j \in DOMAIN payments :
        payments[i].order = payments[j].order => i = j

(* C10 witness: the provider accepted two STK pushes for one order; the     *)
(* second pay_order ended in the exception and one Payment is stored.       *)
C10_Witness ==
    /\ last.op = "pay_order"
    /\ last.was = Null
    /\ last.ok = FALSE
    /\ Len(orders) = 1
    /\ Len(payments) = 1
    /\ b2c_transactions = <<>>
    /\ issued = 2

(***************************************************************************)
(* C11: when add_flash_sale_to_cart requests with quantity >= 1 are served  *)
(* one at a time, sold_count <= stock_limit holds for the FlashSaleProduct  *)
(* in every reachable state.                                                *)
(***************************************************************************)
C11_SoldWithinStockLimit == sold_count <= FlashSale.stock_limit

(* C11 witness: the stock is sold out and a request sent while the sale is  *)
(* live, by a user who may still buy one more, has just been refused.       *)
C11_Witness ==
    /\ sold_count = FlashSale.stock_limit
    /\ last.op = "add_flash_sale_to_cart"
    /\ ~last.ok
    /\ is_live
    /\ purchases["u1"] + 1 <= FlashSale.max_quantity_per_user

(***************************************************************************)
(* C12: with two add_flash_sale_to_cart requests interleaved between the    *)
(* stock check and the sold_count update, a state with                      *)
(* sold_count > stock_limit is reachable (the witness).  The formula is     *)
(* the other half: sold_count is taken above stock_limit only by a request  *)
(* whose stock check read a sold_count that is no longer the stored one.    *)
(***************************************************************************)
C12_OversoldOnlyAfterStaleStockCheck ==
    [][\/ sold_count' = sold_count
       \/ sold_count' <= FlashSale.stock_limit
       \/ \E w \in Workers :
              /\ rq[w].pc = "fs_sold"
              /\ rq'[w].pc = "idle"
              /\ rq[w].sold_count < sold_count]_vars

(* C12 witness: a purchase has just succeeded and more is sold than the     *)
(* stock limit.                                                             *)
C12_Witness ==
    /\ sold_count > FlashSale.stock_limit
    /\ last.op = "add_flash_sale_to_cart"
    /\ last.ok

\* the quantity of the worker's request when its FlashSalePurchase row is
\* stored and its sold_count update is still to come
BeforeSoldUpdate(w) == IF rq[w].pc = "fs_sold" THEN rq[w].quantity ELSE 0

RECURSIVE SumOf(_, _)
SumOf(f, S) ==
    IF S = {} THEN 0
    ELSE LET x == CHOOSE x \in S : TRUE IN f[x] + SumOf(f, S \ {x})

(***************************************************************************)
(* C13 (as claimed): the sold_count increment is a read-modify-write: the   *)
(* value a purchase writes is the sold_count it loaded plus its quantity    *)
(* (so that an interleaved purchase's update can be lost).                  *)
(***************************************************************************)
C13_SoldCountWrittenFromLoadedValue ==
    [][\A w \in Workers :
          (rq[w].pc = "fs_sold" /\ rq'[w].pc = "idle") =>
              sold_count' = rq[w].sold_count + rq[w].quantity]_vars

(***************************************************************************)
(* C13 (amended): the sold_count update adds the quantity to the stored     *)
(* value (F('sold_count') + quantity), so interleaved purchases lose no     *)
(* update: sold_count plus the quantities of the requests that have stored  *)
(* their FlashSalePurchase and not yet updated sold_count equals the sum of *)
(* the purchased quantities recorded in FlashSalePurchase.                  *)
(***************************************************************************)
C13_SoldCountIsSumOfPurchases ==
    sold_count + SumOf([w \in Workers |-> BeforeSoldUpdate(w)], Workers)
        = SumOf(purchases, Users)

(* C13 witness: both users have bought in interleaved requests (more is     *)
(* sold than the check allows), no request is in flight, and sold_count is  *)
(* the sum of the purchased quantities.                                     *)
C13_Witness ==
    /\ \A w \in Workers : rq[w].pc = "idle"
    /\ \A u \in Users : purchases[u] > 0
    /\ sold_count = FlashSale.stock_limit + 2
    /\ sold_count = SumOf(purchases, Users)

\* the CartPromoCode rows of a promo code
RowsOf(code) == {a \in applied : a.promo_code = code}

(***************************************************************************)
(* C14: concurrent apply_promo_code requests from different carts can       *)
(* overuse a capped promo: more CartPromoCode rows than usage_limit can     *)
(* exist for one promo, and used_count can end lower than the number of     *)
(* applications (the witness).  The formula is the other half: a row beyond *)
(* usage_limit is created only by a request whose validity check read a     *)
(* used_count that is no longer the stored one, or while another request    *)
(* for the same promo is between creating its row and writing used_count;   *)
(* and used_count never exceeds the number of rows.                         *)
(***************************************************************************)
C14_OverusedOnlyByInterleaving ==
    [][\A code \in DOMAIN PromoCodes :
          /\ used_count'[code] <= Cardinality(RowsOf(code)')
          /\ \/ RowsOf(code)' = RowsOf(code)
             \/ PromoCodes[code].usage_limit = None
             \/ Cardinality(RowsOf(code)') <= PromoCodes[code].usage_limit
             \/ \E w \in Workers :
                    /\ rq[w].pc = "ap_create"
                    /\ rq'[w].pc = "ap_save"
                    /\ rq[w].code = code
                    /\ \/ rq[w].used_count < used_count[code]
                       \/ \E v \in Workers \ {w} :
                              /\ rq[v].pc = "ap_save"
                              /\ rq[v].code = code]_vars

(* C14 witness: no request is in flight, FIXED50 (usage_limit 1) is applied *)
(* to two carts, and its used_count is 1.                                   *)
C14_Witness ==
    /\ \A w \in Workers : rq[w].pc = "idle"
    /\ Cardinality(RowsOf("FIXED50")) = 2
    /\ PromoCodes["FIXED50"].usage_limit = 1
    /\ used_count["FIXED50"] = 1

(***************************************************************************)
(* C15: verify_payment_signature returns True for every payment_data and    *)
(* every secret_key, and no Pi callback is rejected because of its          *)
(* signature: a callback that names a stored Payment sets its status from   *)
(* the status it reports, whatever its signature.                           *)
(***************************************************************************)
C15_SignatureAlwaysValid ==
    /\ sig_result \in {<<>>, <<TRUE>>}
    /\ (last.op = "pi_payment_callback" /\ last.was # Null) =>
           \A i \in pi_lookup(sig_data.identifier) :
               payments[i].status =
                   IF sig_data.status = "completed" THEN "completed"
                                                    ELSE "failed"

(* C15 witness: a body whose signature is not the secret key was reported   *)
(* valid, and the callback with that body has completed a Payment.          *)
C15_Witness ==
    /\ sig_result = <<TRUE>>
    /\ sig_data.signature # sig_key
    /\ last.op = "pi_payment_callback"
    /\ last.was # Null
    /\ \E i \in pi_lookup(sig_data.identifier) :
           /\ payments[i].status = "completed"
           /\ orders[payments[i].order].is_paid

\* the discount of a valid promo on a cart subtotal: a function of the
\* promo and the subtotal only
PromoDiscountOn(code, subtotal) ==
    calculate_discount(PromoCodes[code], 0, PromoCodes[code].valid_from,
                       subtotal)

\* the orders in which the rows S can be read
Orderings(S) ==
    {s \in [1..Cardinality(S) -> S] : \A x \in S : \E k \in DOMAIN s : s[k] = x}

\* for promo in ...: total -= promo.discount_amount
RECURSIVE SubtractInOrder(_, _)
SubtractInOrder(total, rows) ==
    IF rows = <<>> THEN total
    ELSE SubtractInOrder(total - Head(rows).discount_amount, Tail(rows))

(***************************************************************************)
(* C16: promo codes applied to one cart subtract sequentially.  Each        *)
(* apply_promo_code that succeeds stores the promo's discount on the cart's *)
(* subtotal, whatever codes were applied before it, and afterwards          *)
(* final_total is subtotal + shipping_cost + tax_amount minus the sum of    *)
(* the stored discount amounts, in whatever order the rows are subtracted:  *)
(* the same set of codes applied to an unchanged cart in any order gives    *)
(* the same final_total.                                                    *)
(***************************************************************************)
C16_FinalTotalIndependentOfOrder ==
    [][(last'.op = "apply_promo_code" /\ last'.ok) =>
          \A a \in applied' \ applied :
              LET c == a.cart
                  subtotal == ItemsTotal({i \in items : i.cart = c})
                  rows == {b \in applied' : b.cart = c}
                  shipping == IF subtotal >= 100 * Dollar THEN 0
                                                         ELSE 5 * Dollar
                  tax == (subtotal \div 100) * 8
              IN  /\ a.discount_amount =
                         PromoDiscountOn(a.promo_code, subtotal)
                  /\ final_total(c)' =
                         subtotal + shipping + tax - DiscountsTotal(rows)
                  /\ \A s \in Orderings(rows) :
                         SubtractInOrder(subtotal + shipping + tax, s)
                             = final_total(c)']_vars

(* C16 witness: FIXED50 was applied to a cart of 80.00 after EARLY20; the   *)
(* final total is 80 + 5 + 6.40 - 15 - 50 = 26.40 (reached as well when the *)
(* codes are applied in the other order).                                   *)
C16_Witness ==
    /\ last.op = "apply_promo_code"
    /\ last.arg = "FIXED50"
    /\ last.ok
    /\ \E c \in DOMAIN carts :
           /\ total_price(c) = 80 * Dollar
           /\ {a.promo_code : a \in {b \in applied : b.cart = c}}
                  = {"FIXED50", "EARLY20"}
           /\ final_total(c) = 2640 * Cent

(***************************************************************************)
(* C17 (as claimed): after any sequence of payment callbacks and admin      *)
(* confirm/reject actions, duplicates and out-of-order deliveries included, *)
(* an Order marked paid by the payment flow has a Payment whose status is   *)
(* completed: no callback and no confirm/reject takes the completed Payment *)
(* of a paid order to another status and leaves the order paid.             *)
(***************************************************************************)
C17_PaidOrderKeepsCompletedPayment ==
    [][(last'.op \in {"mpesa_callback", "pi_payment_callback",
                      "confirm_pi_payment"}) =>
          \A i \in DOMAIN payments :
              (/\ payments[i].status = "completed"
               /\ orders[payments[i].order].is_paid
               /\ payments'[i].status # "completed")
                  => ~orders'[payments[i].order].is_paid]_vars

(***************************************************************************)
(* C18 (as claimed): a Pi callback that reports status 'pending' leaves     *)
(* every Payment's status and every order unchanged.                        *)
(***************************************************************************)
C18_PendingCallbackChangesNothing ==
    [][(last'.op = "pi_payment_callback") =>
          \A id \in CallbackIds :
              pi_payment_callback(id, "pending") =>
                  UNCHANGED <<payments, orders>>]_vars

(***************************************************************************)
(* C19 (as claimed): an mpesa_callback whose CheckoutRequestID is empty or  *)
(* missing never changes a Payment whose payment_id is blank.               *)
(***************************************************************************)
C19_EmptyCheckoutIdChangesNoBlankPayment ==
    [][(last'.op = "mpesa_callback") =>
          \A id \in {"", Null}, code \in {0, 1} :
              mpesa_callback(id, code) =>
                  /\ \A i \in DOMAIN payments :
                         payments[i].payment_id = ""
                             => payments'[i] = payments[i]
                  /\ UNCHANGED orders]_vars

(***************************************************************************)
(* C20 (as claimed): every STK push that pay_order initiates successfully   *)
(* is recorded in a Payment whose payment_id is the returned                *)
(* CheckoutRequestID, for an order without a Payment and for an order whose *)
(* Payment has failed (a second attempt); the success callback that names   *)
(* this CheckoutRequestID can then mark the order paid.                     *)
(***************************************************************************)
C20_StkPushRecorded ==
    [][(last'.op = "pay_order") =>
          \A u \in Users, o \in DOMAIN orders :
              (/\ pay_order(u, o, "id")
               /\ \A i \in DOMAIN payments :
                      payments[i].order = o => payments[i].status = "failed")
                  => \E i \in DOMAIN payments' :
                         /\ payments'[i].order = o
                         /\ payments'[i].payment_id = ProviderId(issued')]_vars

\* the handlers that check the ownership of the CartItem they are given
OwnershipChecking == {"update_cart_item", "remove_cart_item", "save_for_later"}

(***************************************************************************)
(* C21: cart ownership is verified.  update_cart_item, remove_cart_item and *)
(* save_for_later called on a CartItem of a cart that is not the            *)
(* requester's answer 'Unauthorized', and the item, every other cart item,  *)
(* the item's cart and the saved-for-later rows stay as they were.          *)
(***************************************************************************)
C21_OtherCartsItemUntouched ==
    [][last'.op \in OwnershipChecking =>
           \A r \in Shoppers, item \in items :
               (/\ item.cart # get_or_create_cart(r).cart
                /\ \/ \E q \in UpdateQuantities : update_cart_item(r, item, q)
                   \/ remove_cart_item(r, item)
                   \/ r \in Users /\ save_for_later(r, item))
                   => /\ last'.arg = "Unauthorized"
                      /\ ~last'.ok
                      /\ item \in items'
                      /\ carts'[item.cart] = carts[item.cart]
                      /\ UNCHANGED <<items, saved>>]_vars

(* C21 witness: the logged-in user and the anonymous browser each have an   *)
(* item in their cart, and a remove_cart_item request was answered          *)
(* 'Unauthorized'.                                                          *)
C21_Witness ==
    /\ last.op = "remove_cart_item"
    /\ last.arg = "Unauthorized"
    /\ ~last.ok
    /\ \E i \in items : carts[i.cart].user = "u1"
    /\ \E i \in items : carts[i.cart].user = Null

(***************************************************************************)
(* C22: with each product's stock held constant, every CartItem's quantity  *)
(* is at least 1 and at most its product's stock after any sequence of      *)
(* add_to_cart, update_cart_item, move_to_cart and cart_recovery requests.  *)
(* The code does not keep it: add_to_cart stores a quantity of 0, and       *)
(* move_to_cart adds one to a quantity that already equals the stock.       *)
(***************************************************************************)
C22_QuantityWithinStock ==
    \A i \in items :
        /\ i.quantity >= 1
        /\ i.quantity <= Product[i.product].stock

\* the requests C23 is about
TotalChanging ==
    {"add_to_cart", "update_cart_item", "remove_cart_item", "clear_cart",
     "apply_promo_code", "remove_promo_code"}

(***************************************************************************)
(* C23: Cart.final_total is never negative after an add_to_cart,            *)
(* update_cart_item, remove_cart_item, clear_cart, apply_promo_code or      *)
(* remove_promo_code request.  The code does not keep it: the               *)
(* discount_amount stored when the promo was applied is still subtracted    *)
(* after the items it was computed from have left the cart.                 *)
(***************************************************************************)
C23_FinalTotalNeverNegative ==
    last.op \in TotalChanging =>
        \A c \in DOMAIN carts : final_total(c) >= 0

(***************************************************************************)
(* C24: starting from used_count 0 and no applications, with                *)
(* apply_promo_code and remove_promo_code requests served one at a time,    *)
(* every promo's used_count equals the number of CartPromoCode rows that    *)
(* reference it.                                                            *)
(***************************************************************************)
C24_UsedCountIsRowCount ==
    \A code \in DOMAIN PromoCodes :
        used_count[code] = Cardinality(RowsOf(code))

(* C24 witness: a promo applied to two carts has used_count 2, and a        *)
(* remove_promo_code request has taken another promo's count back to 0.     *)
C24_Witness ==
    /\ last.op = "remove_promo_code"
    /\ last.ok
    /\ used_count[last.arg] = 0
    /\ RowsOf(last.arg) = {}
    /\ \E code \in DOMAIN PromoCodes :
           /\ used_count[code] = 2
           /\ Cardinality(RowsOf(code)) = 2

\* the ShippingAddress rows of user u with is_default set
DefaultsOf(u) ==
    {i \in DOMAIN addresses :
        /\ addresses[i].live
        /\ addresses[i].user = u
        /\ addresses[i].is_default}

(***************************************************************************)
(* C25: each user has at most one default ShippingAddress after any         *)
(* sequence of add_shipping_address, edit_shipping_address,                 *)
(* set_default_address and delete_shipping_address requests.                *)
(***************************************************************************)
C25_AtMostOneDefault ==
    \A u \in Users : Cardinality(DefaultsOf(u)) <= 1

(* C25 witness: set_default_address has moved a user's default from an      *)
(* older address, which the user still has, to a newer one.                 *)
C25_Witness ==
    /\ last.op = "set_default_address"
    /\ last.ok
    /\ \E u \in Users, i, j \in DOMAIN addresses :
           /\ i < j
           /\ addresses[i].live /\ addresses[i].user = u
           /\ ~addresses[i].is_default
           /\ DefaultsOf(u) = {j}

(***************************************************************************)
(* C26: whenever apply_promo_code answers success=false (at any of its      *)
(* checks, or through the swallowed IntegrityError of a second row for the  *)
(* same cart and promo), the request has created no CartPromoCode row and   *)
(* has not written used_count: the step that answers leaves both as they    *)
(* were, and it is taken from a point of the handler before the row is      *)
(* created.                                                                 *)
(***************************************************************************)
C26_RefusalWritesNothing ==
    [][\A w \in Workers :
          (/\ last'.op = "apply_promo_code"
           /\ ~last'.ok
           /\ rq'[w].pc = "idle"
           /\ \/ rq[w].pc # "idle"
              \/ \E r \in Shoppers : ap_load(w, r, last'.arg))
              => /\ rq[w].pc \in {"idle", "ap_check", "ap_create"}
                 /\ UNCHANGED <<applied, used_count>>]_vars

(* C26 witness: a request was refused through the IntegrityError of its     *)
(* create, while the worker whose request created the one FIXED50 row has   *)
(* not yet written used_count.                                              *)
C26_Witness ==
    /\ last.op = "apply_promo_code"
    /\ last.arg = "IntegrityError"
    /\ ~last.ok
    /\ used_count["FIXED50"] = 0
    /\ \E w \in Workers :
           /\ rq[w].pc = "ap_save"
           /\ rq[w].code = "FIXED50"
           /\ RowsOf("FIXED50") =
                  {[cart |-> rq[w].cart, promo_code |-> "FIXED50",
                    discount_amount |-> rq[w].discount_amount]}
           /\ \E v \in Workers \ {w} : rq[v].pc = "idle"

====
